---- MODULE Spec2Model ----
(***************************************************************************)
(* A model of the example components of the React study notes and of the   *)
(* rendering rules the notes state for them: state setters queue updates,  *)
(* a re-render processes the queue, effects run after the commit and are   *)
(* cleaned up before their next run and at unmount.                        *)
(*                                                                         *)
(* One component is mounted per behaviour (comp, chosen by Init).  Arrays, *)
(* objects and functions are references into heap, so that "same           *)
(* reference" and "new array" mean what they mean in JavaScript.           *)
(***************************************************************************)
EXTENDS Integers, Sequences, FiniteSets, TLC

\* ------------------------------------------------------------------ bounds
MaxBatch == 3      \* handler calls whose updates may be pending before a re-render
MaxListBatch == 2  \* the same, for the handlers of the list and form components
MaxCount == 3      \* |count| stays within this
MaxTasks == 3      \* length of the to-do list stays within this
MaxFood == 3       \* length of the food list stays within this
MaxCars == 2       \* length of the car inventory stays within this
MaxNotesTasks == 7 \* length of the list of the notes' addTwoTasks stays within this
MaxTicks == 3      \* seconds the clock advances
MaxTimers == 4     \* timer ids the browser hands out

VARIABLES
    comp,      \* the component that is mounted in this behaviour
    phase,     \* "initial" (not yet rendered), "mounted", "unmounted"
    state,     \* the values React holds for the component's useState hooks
    heap,      \* contents of the arrays/objects/functions that are referred to
    closure,   \* the functions the last render created
    queue,     \* updates queued by setter calls since the last render
    pending,   \* the effects the last commit scheduled and that have not run yet
    cleanup,   \* per effect, what the cleanup returned by its last run captured
    world,     \* the browser: document.title, window, timers, the clock
    dom,       \* what the last committed render displays
    effectLog, \* per effect with a cleanup: body runs and cleanup runs (history)
    last,      \* the operation that produced this state (history)
    calls,     \* the handlers called since the last render, in order (history)
    before     \* what the last re-render started from (history)

vars == <<comp, phase, state, heap, closure, queue, pending, cleanup, world, dom,
          effectLog, last, calls, before>>

\* ------------------------------------------------------------- components
StateComponents == {"CounterUpdater", "Counter", "AddTwoTasks"}
ListComponents == {"ToDoList", "FoodList", "CarInventory", "CarObject"}
FormComponents == {"OrderForm"}
RenderComponents == {"Fruits", "Groceries"}
\* (UserNotes has no effect: it is mounted with these for the re-render it is denied.)
\* (ClockOnTime is the DigitalClock of the notes whose effect depends on [time].)
EffectComponents == {"DigitalClock", "ClockOnTime", "Window", "CountColor", "Loop", "Debounce",
                     "UserNotes"}

\* The arrays App passes to its two List elements.
fruitsSharedId == <<[id |-> 1, name |-> "Apple", calories |-> 95],
                    [id |-> 2, name |-> "Banana", calories |-> 105],
                    [id |-> 3, name |-> "Cherry", calories |-> 50],
                    [id |-> 1, name |-> "Date", calories |-> 20]>>
fruits == <<[id |-> 1, name |-> "Apple", calories |-> 95],
            [id |-> 2, name |-> "Banana", calories |-> 105],
            [id |-> 3, name |-> "Cherry", calories |-> 50],
            [id |-> 4, name |-> "Date", calories |-> 20]>>
groceries == <<[id |-> 1, name |-> "Bread", calories |-> 80],
               [id |-> 2, name |-> "Milk", calories |-> 150],
               [id |-> 3, name |-> "Eggs", calories |-> 70]>>

\* useState(initial) of each component in the browser w, arrays and objects
\* given by their contents.  The two List elements are named by their category;
\* their props are held like state that only the parent sets.
InitialState(c, w) ==
    CASE c = "CounterUpdater" -> [count |-> 0]
      [] c = "Counter"        -> [count |-> 0]
      [] c = "AddTwoTasks"    -> [tasks |-> <<"Wake up", "Brush Teeth", "Eat Breakfast">>]
      [] c = "ToDoList"       -> [tasks |-> <<"Wake up", "Brush Teeth", "Eat Breakfast">>,
                                  newTask |-> ""]
      [] c \in {"DigitalClock", "ClockOnTime"} -> [time |-> w.now]
      [] c = "Window"         -> [width |-> w.innerWidth, height |-> w.innerHeight]
      [] c = "CountColor"     -> [count |-> 0, color |-> "green"]
      [] c = "Loop"           -> [count |-> 0]
      [] c = "Debounce"       -> [value |-> ""]
      [] c = "UserNotes"      -> [user |-> [name |-> "Alice", age |-> 25]]
      [] c = "FoodList"       -> [food |-> <<"Apple", "Banana", "Orange">>]
      [] c = "CarInventory"   -> [cars |-> <<>>, carYear |-> w.year,
                                  carMake |-> "", carModel |-> ""]
      [] c = "CarObject"      -> [car |-> [year |-> 2020, make |-> "Toyota",
                                           model |-> "Corolla"]]
      [] c = "OrderForm"      -> [name |-> "", quantity |-> 0, comment |-> "",
                                  payment |-> "", shipping |-> "Delivery"]
      [] c = "Fruits"         -> [items |-> fruits, category |-> "Fruits"]
      [] c = "Groceries"      -> [items |-> groceries, category |-> "Groceries"]

\* The hooks of a component whose value is an array or an object (a Date).
ArrayHooks(c) ==
    CASE c \in {"AddTwoTasks", "ToDoList"} -> {"tasks"}
      [] c \in {"DigitalClock", "ClockOnTime"} -> {"time"}
      [] c = "UserNotes"                   -> {"user"}
      [] c = "FoodList"                    -> {"food"}
      [] c = "CarInventory"                -> {"cars"}
      [] c = "CarObject"                   -> {"car"}
      [] c \in RenderComponents            -> {"items"}
      [] OTHER                             -> {}

\* The functions of a component whose identity matters to the browser.
Closures(c) == IF c = "Window" THEN {"handleResize"} ELSE {}

\* The effects of a component, in the order of their useEffect calls.
Effects(c) ==
    CASE c \in {"DigitalClock", "ClockOnTime"} -> <<"interval">>
      [] c = "Window"       -> <<"listener", "size">>
      [] c = "CountColor"   -> <<"title">>
      [] c = "Loop"         -> <<"setCount">>
      [] c = "Debounce"     -> <<"timeout">>
      [] OTHER              -> <<>>

Range(f) == {f[i] : i \in DOMAIN f}

\* The effects that return a cleanup.
WithCleanup == {"interval", "listener", "timeout"}

\* useEffect without a dependency array.
NoDepsArrayNever(e) == FALSE
NoDepsArray(e) == e = "setCount"

\* The dependency array of an effect, evaluated in a render that sees st.
DepsColorOnly(e, st) ==
    CASE e = "size"     -> <<st.width, st.height>>
      [] e = "title"    -> <<st.color>>
      [] e = "timeout"  -> <<st.value>>
      [] OTHER          -> <<>>

DepsIntervalOnTime(e, st) ==
    CASE e = "interval" -> <<st.time>>
      [] e = "size"     -> <<st.width, st.height>>
      [] e = "title"    -> <<st.count, st.color>>
      [] e = "timeout"  -> <<st.value>>
      [] OTHER          -> <<>>

DepsListenerOnSize(e, st) ==
    CASE e = "listener" -> <<st.width, st.height>>
      [] e = "size"     -> <<st.width, st.height>>
      [] e = "title"    -> <<st.count, st.color>>
      [] e = "timeout"  -> <<st.value>>
      [] OTHER          -> <<>>

DepsIntervalOnce(e, st) ==
    CASE e = "size"     -> <<st.width, st.height>>
      [] e = "title"    -> <<st.count, st.color>>
      [] e = "timeout"  -> <<st.value>>
      [] OTHER          -> <<>>

Deps(e, st) ==
    CASE e = "interval" -> IF comp = "ClockOnTime" THEN <<st.time>> ELSE <<>>
      [] e = "listener" -> <<>>
      [] e = "size"     -> <<st.width, st.height>>
      [] e = "title"    -> <<st.count, st.color>>
      [] e = "timeout"  -> <<st.value>>
      [] OTHER          -> <<>>

\* ------------------------------------------------------------------- heap
Refs == 1..(3 * MaxBatch + 3 * MaxListBatch + 3)

Fresh(h) ==
    CHOOSE r \in Refs \ DOMAIN h : \A s \in Refs \ DOMAIN h : r <= s

\* A newly created array/object/function with contents v.
Alloc(h, v) == [ref |-> Fresh(h), heap |-> (Fresh(h) :> v) @@ h]

\* References reachable from the hooks, from the values waiting in the queue,
\* from the last render's functions, from the registered listeners and from
\* what the cleanups captured.
Live(c, st, q, clo, cu, w) ==
    {st[k] : k \in ArrayHooks(c)}
    \cup {q[i].value : i \in {j \in DOMAIN q :
                               q[j].kind = "value" /\ q[j].hook \in ArrayHooks(c)}}
    \cup Range(clo)
    \cup w.listeners
    \cup {cu[e].handleResize : e \in {x \in DOMAIN cu : x = "listener"}}

Collect(h, live) == [r \in (DOMAIN h) \cap live |-> h[r]]

\* The state with every array/object replaced by its contents.
Contents(c, st, h) ==
    [k \in DOMAIN st |-> IF k \in ArrayHooks(c) THEN h[st[k]] ELSE st[k]]

\* ------------------------------------------------------------ JavaScript
\* What reading past the end of an array yields, and what a task is then.
Undefined == "<undefined>"

\* a[i], indices from 0.
At(a, i) == IF 0 <= i /\ i < Len(a) THEN a[i + 1] ELSE Undefined

\* a[i] = v, indices from 0: writing at a.length extends the array.
SetAt(a, i, v) == IF i < Len(a) THEN [a EXCEPT ![i + 1] = v] ELSE Append(a, v)

\* a.filter((_, i) => i !== index)
RECURSIVE FilterFrom(_, _, _)
FilterFrom(a, index, i) ==
    IF i >= Len(a) THEN <<>>
    ELSE (IF i # index THEN <<At(a, i)>> ELSE <<>>) \o FilterFrom(a, index, i + 1)

FilterIndexNext(a, index) == FilterFrom(a, index + 1, 0)
FilterIndex(a, index) == FilterFrom(a, index, 0)

\* String.prototype.trim, for the white space the inputs contain.
IsSpace(ch) == ch \in {" ", "\t", "\n"}

RECURSIVE TrimStart(_)
TrimStart(s) ==
    IF Len(s) > 0 /\ IsSpace(SubSeq(s, 1, 1)) THEN TrimStart(SubSeq(s, 2, Len(s))) ELSE s

RECURSIVE TrimEnd(_)
TrimEnd(s) ==
    IF Len(s) > 0 /\ IsSpace(SubSeq(s, Len(s), Len(s)))
        THEN TrimEnd(SubSeq(s, 1, Len(s) - 1)) ELSE s

NoTrim(s) == s
Trim(s) == TrimEnd(TrimStart(s))

\* Number(text) of the text of a number input: digits, or nothing (which is 0).
Digit(ch) ==
    CASE ch = "0" -> 0 [] ch = "1" -> 1 [] ch = "2" -> 2 [] ch = "3" -> 3
      [] ch = "4" -> 4 [] ch = "5" -> 5 [] ch = "6" -> 6 [] ch = "7" -> 7
      [] ch = "8" -> 8 [] ch = "9" -> 9

RECURSIVE Number(_)
Number(text) ==
    IF text = "" THEN 0
    ELSE 10 * Number(SubSeq(text, 1, Len(text) - 1))
            + Digit(SubSeq(text, Len(text), Len(text)))

\* ---------------------------------------------------------------- updates
Value(hook, v)        == [hook |-> hook, kind |-> "value", value |-> v]
Updater(hook, fn, a)  == [hook |-> hook, kind |-> "updater", fn |-> fn, arg |-> a]

NoArg == "-"

\* The updater functions of the components, applied to the previous value.
ApplyUpdaterInPlace(fn, arg, prev, h) ==
    CASE fn = "inc"    -> [value |-> prev + 1, heap |-> h]
      [] fn = "dec"    -> [value |-> prev - 1, heap |-> h]
      [] fn = "append" -> [value |-> prev, heap |-> [h EXCEPT ![prev] = Append(@, arg)]]
      [] fn = "filter" -> [value |-> prev,
                           heap |-> [h EXCEPT ![prev] = FilterIndex(@, arg)]]
      [] fn = "spread" -> [value |-> prev,
                           heap |-> [h EXCEPT ![prev][arg.field] = arg.value]]

ApplyUpdaterNoSpread(fn, arg, prev, h) ==
    CASE fn = "inc"    -> [value |-> prev + 1, heap |-> h]
      [] fn = "dec"    -> [value |-> prev - 1, heap |-> h]
      [] fn = "append" -> LET a == Alloc(h, Append(h[prev], arg))
                          IN  [value |-> a.ref, heap |-> a.heap]
      [] fn = "filter" -> LET a == Alloc(h, FilterIndex(h[prev], arg))
                          IN  [value |-> a.ref, heap |-> a.heap]
      [] fn = "spread" -> LET a == Alloc(h, [field \in DOMAIN h[prev] |->
                                               IF field = arg.field THEN arg.value
                                               ELSE Undefined])
                          IN  [value |-> a.ref, heap |-> a.heap]

ApplyUpdater(fn, arg, prev, h) ==
    CASE fn = "inc"    -> [value |-> prev + 1, heap |-> h]
      [] fn = "dec"    -> [value |-> prev - 1, heap |-> h]
      [] fn = "append" -> LET a == Alloc(h, Append(h[prev], arg))
                          IN  [value |-> a.ref, heap |-> a.heap]
      [] fn = "filter" -> LET a == Alloc(h, FilterIndex(h[prev], arg))
                          IN  [value |-> a.ref, heap |-> a.heap]
      [] fn = "spread" -> LET a == Alloc(h, [h[prev] EXCEPT ![arg.field] = arg.value])
                          IN  [value |-> a.ref, heap |-> a.heap]

\* What an update makes of the hook's value.
ApplyUpdate(u, prev, h) ==
    IF u.kind = "value"
        THEN [value |-> u.value, heap |-> h]
        ELSE ApplyUpdater(u.fn, u.arg, prev, h)

\* The value an updater is handed: the one the updates before it produced.
PrevStale(acc, st0, hook) == st0[hook]
Prev(acc, st0, hook) == acc[hook]

\* Processing the queue in call order at a re-render.
RECURSIVE Reduce(_, _, _, _)
Reduce(acc, st0, h, q) ==
    IF q = <<>> THEN [state |-> acc, heap |-> h]
    ELSE LET u == Head(q)
             r == ApplyUpdate(u, Prev(acc, st0, u.hook), h)
         IN  Reduce([acc EXCEPT ![u.hook] = r.value], st0, r.heap, Tail(q))

\* An update as it reads with array values replaced by their contents.
Describe(c, u, h) ==
    IF u.kind = "value" /\ u.hook \in ArrayHooks(c)
        THEN [u EXCEPT !.value = h[u.value]] ELSE u

\* ------------------------------------------------------------------ views
\* key={index}: the keys of the <li> elements of a list rendered by position.
IndexKeys(items) == [i \in DOMAIN items |-> i - 1]

\* itemList.map(item => <li key={item.id}>{item.name}: {item.calories} calories</li>)
listItemsReversed(itemList) ==
    [i \in DOMAIN itemList |->
        LET item == itemList[Len(itemList) + 1 - i]
        IN  [key |-> item.id,
             text |-> item.name \o ": " \o ToString(item.calories) \o " calories"]]
listItems(itemList) ==
    [i \in DOMAIN itemList |->
        LET item == itemList[i]
        IN  [key |-> item.id,
             text |-> item.name \o ": " \o ToString(item.calories) \o " calories"]]

\* A Date, as the seconds since local midnight of the day the clock started:
\* the parts of it that formatTime reads.
getHours(time) == (time \div 3600) % 24
getMinutes(time) == (time \div 60) % 60
getSeconds(time) == time % 60

\* `0${num}` under 10, `${num}` otherwise.
padZeroBare(num) == ToString(num)
padZero(num) == IF num < 10 THEN "0" \o ToString(num) ELSE ToString(num)

formatTime(time) ==
    LET hours == getHours(time)
        minutes == getMinutes(time)
        seconds == getSeconds(time)
        meridiem == IF hours >= 12 THEN "PM" ELSE "AM"
    IN  padZero(hours) \o ":" \o padZero(minutes) \o ":" \o padZero(seconds)
            \o " " \o meridiem

\* What the component displays for the state (and props) s: the value of each
\* input, the checked radio, and the list items with their keys.
ViewSwapped(c, s) ==
    [name |-> s.comment, quantity |-> s.quantity, comment |-> s.name,
     payment |-> s.payment,
     pickup |-> s.shipping = "Pickup", delivery |-> s.shipping = "Delivery"]
View(c, s) ==
    CASE c \in {"CounterUpdater", "Counter"} -> [counter |-> s.count]
      [] c = "AddTwoTasks"  -> [items |-> s.tasks]
      [] c = "ToDoList"     -> [input |-> s.newTask, items |-> s.tasks,
                                keys |-> IndexKeys(s.tasks)]
      [] c = "FoodList"     -> [items |-> s.food, keys |-> IndexKeys(s.food)]
      [] c = "CarInventory" -> [items |-> s.cars, keys |-> IndexKeys(s.cars),
                                year |-> s.carYear, make |-> s.carMake,
                                model |-> s.carModel]
      [] c = "CarObject"    -> [year |-> s.car.year, make |-> s.car.make,
                                model |-> s.car.model]
      [] c = "OrderForm"    -> [name |-> s.name, quantity |-> s.quantity,
                                comment |-> s.comment, payment |-> s.payment,
                                pickup |-> s.shipping = "Pickup",
                                delivery |-> s.shipping = "Delivery"]
      [] c \in RenderComponents ->
             [category |-> s.category,
              items |-> [i \in DOMAIN s.items |-> listItems(s.items)[i].text],
              keys |-> [i \in DOMAIN s.items |-> listItems(s.items)[i].key]]
      [] c \in {"DigitalClock", "ClockOnTime"} -> [clock |-> formatTime(s.time)]
      [] c = "Window"       -> [width |-> s.width, height |-> s.height]
      [] c = "CountColor"   -> [count |-> s.count, color |-> s.color]
      [] c = "Loop"         -> [count |-> s.count]
      [] c = "Debounce"     -> [input |-> s.value]
      [] c = "UserNotes"    -> [name |-> s.user.name, age |-> s.user.age]

\* ---------------------------------------------------------------- effects
\* What an effect leaves behind: acc is [world, cleanup, queue, log].
RunEffect(e, st, clo, acc) ==
    LET w == acc.world
        ran == IF e \in WithCleanup
                 THEN [acc.log EXCEPT ![e].runs = @ + 1] ELSE acc.log
    IN
    CASE e = "interval" ->
           \* const intervalId = setInterval(() => setTime(new Date()), 1000)
           [acc EXCEPT !.world = [w EXCEPT
                           !.timers = (w.nextTimer :> [fn |-> "setTime"]) @@ @,
                           !.nextTimer = @ + 1],
                       !.cleanup = ("interval" :> [intervalId |-> w.nextTimer]) @@ @,
                       !.log = ran]
      [] e = "listener" ->
           \* window.addEventListener('resize', handleResize)
           [acc EXCEPT !.world = [w EXCEPT !.listeners = @ \cup {clo.handleResize}],
                       !.cleanup = ("listener" :> [handleResize |-> clo.handleResize]) @@ @,
                       !.log = ran]
      [] e = "size" ->
           [acc EXCEPT !.world = [w EXCEPT !.title =
                "Size: " \o ToString(st.width) \o " x " \o ToString(st.height)]]
      [] e = "title" ->
           [acc EXCEPT !.world = [w EXCEPT !.title =
                "Count is " \o ToString(st.count) \o " " \o st.color]]
      [] e = "setCount" ->
           \* setCount(count + 1)
           [acc EXCEPT !.queue = Append(@, Value("count", st.count + 1))]
      [] e = "timeout" ->
           \* const id = setTimeout(() => search(value), 300)
           [acc EXCEPT !.world = [w EXCEPT
                           !.timers = (w.nextTimer :> [fn |-> "search", value |-> st.value]) @@ @,
                           !.nextTimer = @ + 1],
                       !.cleanup = ("timeout" :> [id |-> w.nextTimer]) @@ @,
                       !.log = ran]

\* clearInterval(id), clearTimeout(id)
ClearTimer(timers, id) == [i \in (DOMAIN timers) \ {id} |-> timers[i]]

\* The cleanup an effect returned, run with what it captured.
NoCleanup(e, captured, acc) == acc

RunCleanupWrongId(e, captured, acc) ==
    LET w == acc.world
        cleaned == [acc.log EXCEPT ![e].cleanups = @ + 1]
    IN
    CASE e = "interval" ->
           [acc EXCEPT !.world = [w EXCEPT !.timers = ClearTimer(@, w.nextTimer)],
                       !.log = cleaned]
      [] e = "listener" ->
           [acc EXCEPT !.world = [w EXCEPT !.listeners = @ \ {captured.handleResize}],
                       !.log = cleaned]
      [] e = "timeout" ->
           [acc EXCEPT !.world = [w EXCEPT !.timers = ClearTimer(@, captured.id)],
                       !.log = cleaned]

RunCleanup(e, captured, acc) ==
    LET w == acc.world
        cleaned == [acc.log EXCEPT ![e].cleanups = @ + 1]
    IN
    CASE e = "interval" ->
           [acc EXCEPT !.world = [w EXCEPT !.timers = ClearTimer(@, captured.intervalId)],
                       !.log = cleaned]
      [] e = "listener" ->
           [acc EXCEPT !.world = [w EXCEPT !.listeners = @ \ {captured.handleResize}],
                       !.log = cleaned]
      [] e = "timeout" ->
           [acc EXCEPT !.world = [w EXCEPT !.timers = ClearTimer(@, captured.id)],
                       !.log = cleaned]

\* The cleanups of the effects es that have one registered, in order.
RECURSIVE CleanupAll(_, _)
CleanupAll(es, acc) ==
    IF es = <<>> THEN acc
    ELSE LET e == Head(es)
         IN  CleanupAll(Tail(es),
                 IF e \in DOMAIN acc.cleanup
                   THEN [RunCleanup(e, acc.cleanup[e], acc) EXCEPT
                            !.cleanup = [x \in (DOMAIN acc.cleanup) \ {e} |-> acc.cleanup[x]]]
                   ELSE acc)

RECURSIVE RunAll(_, _, _, _)
RunAll(es, st, clo, acc) ==
    IF es = <<>> THEN acc
    ELSE RunAll(Tail(es), st, clo, RunEffect(Head(es), st, clo, acc))

\* The effects a commit schedules: all at mount, later those whose dependencies
\* changed (Object.is on each) and those without a dependency array.
Scheduled(c, old, new) ==
    {e \in Range(Effects(c)) : NoDepsArray(e) \/ Deps(e, old) # Deps(e, new)}

\* ------------------------------------------------------------------- init
NoSnapshot == [none |-> TRUE]
NoSearch == "<none>"
InitialTitle == "Vite + React + TS"
Widths == {800, 1024}
Heights == {600, 768}

\* The browser the component is mounted in.
Browsers(c) ==
    [now : {0}, title : {InitialTitle}, listeners : {{}},
     innerWidth : IF c = "Window" THEN Widths ELSE {1024},
     innerHeight : IF c = "Window" THEN Heights ELSE {768},
     searched : {NoSearch},
     timers : {<<>>},
     nextTimer : {1},
     year : {2026},
     foodInput : {""}]
    \cup (IF c \in {"DigitalClock", "ClockOnTime"}
            THEN {[now |-> 0, title |-> InitialTitle, listeners |-> {}, innerWidth |-> 1024,
                   innerHeight |-> 768, searched |-> NoSearch,
                   timers |-> <<[fn |-> "other"]>>, nextTimer |-> 2,
                   year |-> 2026, foodInput |-> ""]}
            ELSE {})

\* The first array/object the component creates.
InitialRef == Fresh(<<>>)

\* The component as its first render finds it, in the browser it is given.
Constructed ==
    /\ phase = "initial"
    /\ state = [k \in DOMAIN InitialState(comp, world) |->
                   IF k \in ArrayHooks(comp) THEN InitialRef
                   ELSE InitialState(comp, world)[k]]
    /\ heap = [r \in {InitialRef : k \in ArrayHooks(comp)} |->
                   InitialState(comp, world)[CHOOSE k \in ArrayHooks(comp) : TRUE]]
    /\ closure = <<>>
    /\ queue = <<>>
    /\ pending = {}
    /\ cleanup = <<>>
    /\ dom = NoSnapshot
    /\ effectLog = [e \in Range(Effects(comp)) \cap WithCleanup |->
                       [runs |-> 0, cleanups |-> 0]]
    /\ last = "init"
    /\ calls = <<>>
    /\ before = NoSnapshot

InitOf(cs) ==
    /\ comp \in cs
    /\ world \in Browsers(comp)
    /\ Constructed

\* --------------------------------------------------------------- lifecycle
\* The functions a render creates: new ones, each time.
NewClosures(c, h) ==
    IF Closures(c) = {} THEN [closure |-> <<>>, heap |-> h]
    ELSE LET a == Alloc(h, [function |-> "handleResize"])
         IN  [closure |-> [handleResize |-> a.ref], heap |-> a.heap]

\* The first render and its commit.
Mount ==
    /\ phase = "initial"
    /\ phase' = "mounted"
    /\ LET n == NewClosures(comp, heap)
       IN  /\ closure' = n.closure
           /\ heap' = n.heap
    /\ dom' = View(comp, Contents(comp, state, heap))
    /\ pending' = Range(Effects(comp))
    /\ last' = "Mount"
    /\ UNCHANGED <<comp, state, queue, cleanup, world, effectLog, calls, before>>

\* Object.is on every hook: a re-render with nothing changed is skipped.
NeverSame(s, t) == FALSE
SameState(s, t) == \A k \in DOMAIN s : s[k] = t[k]

\* The arrays and objects that are left when a render that took the hooks from
\* old to new has committed: the new values and, until they are collected, the
\* old ones that the closures of the render before still see.  References have
\* no order, so the ones that are left are named afresh, the new value first.
Kept(c, old, new, h) ==
    IF ArrayHooks(c) = {} \/ Closures(c) # {}
      THEN [state |-> new, refs |-> old, heap |-> h]
      ELSE LET k == CHOOSE x \in ArrayHooks(c) : TRUE
               a == Alloc(<<>>, h[new[k]])
               b == IF old[k] = new[k] THEN a ELSE Alloc(a.heap, h[old[k]])
           IN  [state |-> [new EXCEPT ![k] = a.ref],
                refs |-> [old EXCEPT ![k] = b.ref],
                heap |-> b.heap]

\* What a re-render starts from; refs is what its old values are named afterwards.
Snapshot(refs) ==
    [state |-> Contents(comp, state, heap),
     queue |-> [i \in DOMAIN queue |-> Describe(comp, queue[i], heap)],
     calls |-> calls, dom |-> dom, title |-> world.title, refs |-> refs]

\* A re-render and its commit: effects that are due have run before it starts.
Render ==
    /\ phase = "mounted"
    /\ queue # <<>>
    /\ pending = {}
    /\ LET r == Reduce(state, state, heap, queue)
           n == NewClosures(comp, r.heap)
           k == Kept(comp, state, r.state,
                     Collect(n.heap,
                             Live(comp, r.state, <<>>, n.closure, cleanup, world)
                             \cup Live(comp, state, <<>>, <<>>, <<>>, world)))
       IN  IF SameState(state, r.state)
             THEN /\ UNCHANGED <<state, closure, dom, pending>>
                  /\ heap' = Collect(r.heap, Live(comp, state, <<>>, closure, cleanup, world))
                  /\ before' = Snapshot(state)
             ELSE /\ state' = k.state
                  /\ closure' = n.closure
                  /\ dom' = View(comp, Contents(comp, r.state, r.heap))
                  /\ pending' = Scheduled(comp, state, r.state)
                  /\ heap' = k.heap
                  /\ before' = Snapshot(k.refs)
    /\ queue' = <<>>
    /\ last' = "Render"
    /\ calls' = <<>>
    /\ UNCHANGED <<comp, phase, cleanup, world, effectLog>>

\* After the commit: the cleanups of the scheduled effects, then their bodies.
FlushEffects ==
    /\ phase = "mounted"
    /\ pending # {}
    /\ LET due == SelectSeq(Effects(comp), LAMBDA e : e \in pending)
           acc == [world |-> world, cleanup |-> cleanup, queue |-> queue, log |-> effectLog]
           r == RunAll(due, state, closure, CleanupAll(due, acc))
       IN  /\ r.world.nextTimer <= MaxTimers + 1
           /\ r.queue # queue => /\ state.count < MaxCount
                                 /\ Len(calls) < MaxBatch
           /\ world' = r.world
           /\ cleanup' = r.cleanup
           /\ queue' = r.queue
           /\ effectLog' = r.log
           /\ calls' = IF r.queue # queue THEN Append(calls, "effect") ELSE calls
           /\ heap' = Collect(heap, Live(comp, state, queue, closure, r.cleanup, r.world))
    /\ pending' = {}
    /\ last' = "FlushEffects"
    /\ before' = NoSnapshot
    /\ UNCHANGED <<comp, phase, state, closure, dom>>

\* The component is removed: every registered cleanup runs, pending updates are dropped.
Unmount ==
    /\ comp \in EffectComponents
    /\ phase = "mounted"
    /\ pending = {}
    /\ phase' = "unmounted"
    /\ LET acc == [world |-> world, cleanup |-> cleanup, queue |-> queue, log |-> effectLog]
           r == CleanupAll(Effects(comp), acc)
       IN  /\ world' = r.world
           /\ cleanup' = r.cleanup
           /\ effectLog' = r.log
           /\ heap' = Collect(heap, Live(comp, state, <<>>, closure, r.cleanup, r.world))
    /\ queue' = <<>>
    /\ calls' = <<>>
    /\ last' = "Unmount"
    /\ before' = NoSnapshot
    /\ UNCHANGED <<comp, state, closure, pending, dom>>

\* The handlers of ToDoList and of the car inventory are followed one event at a
\* time: a click or a change is rendered before the next one is handled.
BatchLimit ==
    CASE comp \in {"ToDoList", "CarInventory"} -> 1
      [] comp \in ListComponents \cup FormComponents \cup RenderComponents -> MaxListBatch
      [] OTHER -> MaxBatch

\* Code that ran in the last render's closure, made the setter calls us and left
\* the heap h and the browser w: the updates wait in the queue for the next
\* render (none is scheduled without a setter call; a setter called after the
\* unmount does nothing).
Call(name, us, h, w) ==
    /\ us # <<>> /\ phase = "mounted" => Len(calls) < BatchLimit
    /\ queue' = IF phase = "mounted" THEN queue \o us ELSE queue
    /\ heap' = IF phase = "mounted"
                 THEN Collect(h, Live(comp, state, queue \o us, closure, cleanup, w))
                 ELSE heap
    /\ world' = w
    /\ last' = name
    /\ calls' = IF us # <<>> /\ phase = "mounted" THEN Append(calls, name) ELSE calls
    /\ before' = NoSnapshot
    /\ UNCHANGED <<comp, phase, state, closure, pending, cleanup, dom, effectLog>>

\* A handler of an element the last render displays.
Handler(name, us, h) ==
    /\ phase = "mounted"
    /\ Call(name, us, h, world)

\* onClick={() => handler(index)}: the call, as the history records it.
CallName(name, index) == name \o "(" \o ToString(index) \o ")"

InRange(n) == -MaxCount <= n /\ n <= MaxCount

\* What the component will hold once the queue, followed by us, is processed.
After(us, h) ==
    LET r == Reduce(state, state, h, queue \o us) IN Contents(comp, r.state, r.heap)

\* ------------------------------------------- CounterUpdater (part_000)
handleIncrement ==
    /\ comp = "CounterUpdater"
    /\ InRange(After(<<Updater("count", "inc", NoArg)>>, heap).count)
    /\ Handler("handleIncrement", <<Updater("count", "inc", NoArg)>>, heap)

handleDecrement ==
    /\ comp = "CounterUpdater"
    /\ InRange(After(<<Updater("count", "dec", NoArg)>>, heap).count)
    /\ Handler("handleDecrement", <<Updater("count", "dec", NoArg)>>, heap)

handleReset ==
    /\ comp = "CounterUpdater"
    /\ Handler("handleReset", <<Value("count", 0)>>, heap)

\* ---------------------------------------------------- Counter (part_012)
incrementLatest ==
    /\ comp = "Counter"
    /\ InRange(After(<<>>, heap).count + 1)
    /\ Handler("increment", <<Value("count", After(<<>>, heap).count + 1)>>, heap)

increment ==
    /\ comp = "Counter"
    /\ InRange(state.count + 1)
    /\ Handler("increment", <<Value("count", state.count + 1)>>, heap)

decrement ==
    /\ comp = "Counter"
    /\ InRange(state.count - 1)
    /\ Handler("decrement", <<Value("count", state.count - 1)>>, heap)

reset ==
    /\ comp = "Counter"
    /\ Handler("reset", <<Value("count", 0)>>, heap)

\* ------------------------- AddTwoTasks (part_006, the two versions of the notes)
addTwoTasksDirectLatest ==
    /\ comp = "AddTwoTasks"
    /\ Len(After(<<>>, heap).tasks) + 2 <= MaxNotesTasks
    /\ Handler("addTwoTasksDirect",
               <<Updater("tasks", "append", "Task A"),
                 Updater("tasks", "append", "Task B")>>, heap)

\* setTasks([...tasks, "Task A"]); setTasks([...tasks, "Task B"]);
addTwoTasksDirect ==
    /\ comp = "AddTwoTasks"
    /\ Len(After(<<>>, heap).tasks) + 2 <= MaxNotesTasks
    /\ LET a == Alloc(heap, Append(heap[state.tasks], "Task A"))
           b == Alloc(a.heap, Append(heap[state.tasks], "Task B"))
       IN  Handler("addTwoTasksDirect",
                   <<Value("tasks", a.ref), Value("tasks", b.ref)>>, b.heap)

\* setTasks(t => [...t, "Task A"]); setTasks(t => [...t, "Task B"]);
addTwoTasks ==
    /\ comp = "AddTwoTasks"
    /\ Len(After(<<>>, heap).tasks) + 2 <= MaxNotesTasks
    /\ Handler("addTwoTasks",
               <<Updater("tasks", "append", "Task A"),
                 Updater("tasks", "append", "Task B")>>, heap)

NextState ==
    \/ Mount
    \/ Render
    \/ handleIncrement
    \/ handleDecrement
    \/ handleReset
    \/ increment
    \/ decrement
    \/ reset
    \/ addTwoTasksDirect
    \/ addTwoTasks

InitState == InitOf(StateComponents)

SpecState == InitState /\ [][NextState]_vars

\* --------------------------------------------------- ToDoList (part_005)
\* What the user may have typed into the input.
Inputs == {"", " ", " Run "}

handleInputChange ==
    /\ comp = "ToDoList"
    /\ \E value \in Inputs :
          Handler("handleInputChange", <<Value("newTask", value)>>, heap)

handleAddTask ==
    /\ comp = "ToDoList"
    /\ Trim(state.newTask) # "" => Len(heap[state.tasks]) < MaxTasks
    /\ IF Trim(state.newTask) # ""
         THEN LET a == Alloc(heap, Append(heap[state.tasks], Trim(state.newTask)))
              IN  Handler("handleAddTask",
                          <<Value("tasks", a.ref), Value("newTask", "")>>, a.heap)
         ELSE Handler("handleAddTask", <<>>, heap)

\* The indices of the items the last render displays, each with its buttons.
Rendered(items) == 0..(Len(items) - 1)

handleDeleteTask ==
    /\ comp = "ToDoList"
    /\ \E index \in Rendered(heap[state.tasks]) :
          LET updatedTasks == Alloc(heap, FilterIndex(heap[state.tasks], index))
          IN  Handler(CallName("handleDeleteTask", index),
                      <<Value("tasks", updatedTasks.ref)>>, updatedTasks.heap)

\* [a[i], a[j]] = [a[j], a[i]]: the right-hand side is read, then a[i], a[j] are set.
Swap(a, i, j) == SetAt(SetAt(a, i, At(a, j)), j, At(a, i))

moveTaskUp ==
    /\ comp = "ToDoList"
    /\ \E index \in Rendered(heap[state.tasks]) :
          IF index = 0
            THEN Handler(CallName("moveTaskUp", index), <<>>, heap)
            ELSE LET updatedTasks ==
                         Alloc(heap, Swap(heap[state.tasks], index - 1, index))
                 IN  Handler(CallName("moveTaskUp", index),
                             <<Value("tasks", updatedTasks.ref)>>, updatedTasks.heap)

moveTaskDown ==
    /\ comp = "ToDoList"
    /\ \E index \in Rendered(heap[state.tasks]) :
          /\ Len(Swap(heap[state.tasks], index + 1, index)) <= MaxTasks
          /\ IF index = -1
               THEN Handler(CallName("moveTaskDown", index), <<>>, heap)
               ELSE LET updatedTasks ==
                            Alloc(heap, Swap(heap[state.tasks], index + 1, index))
                    IN  Handler(CallName("moveTaskDown", index),
                                <<Value("tasks", updatedTasks.ref)>>, updatedTasks.heap)

\* ----------------------- food list (12. Update Arrays in State, example)
\* What the user may type into the input with id foodInput.
Foods == {"Kiwi"}

\* Typing into the input, which React does not control: the DOM keeps the text.
typeFood ==
    /\ comp = "FoodList"
    /\ phase = "mounted"
    /\ \E text \in Foods :
          /\ text # world.foodInput
          /\ Call("typeFood", <<>>, heap, [world EXCEPT !.foodInput = text])

\* setFoods([...food, newFood]) in the place of the updater.
handleAddFoodDirect ==
    /\ comp = "FoodList"
    /\ phase = "mounted"
    /\ Len(After(<<>>, heap).food) < MaxFood
    /\ LET newFood == world.foodInput
           a == Alloc(heap, Append(heap[state.food], newFood))
       IN  Call("handleAddFood(" \o newFood \o ")", <<Value("food", a.ref)>>, a.heap,
                [world EXCEPT !.foodInput = ""])

\* The history records the call with the text it read from the input.
handleAddFood ==
    /\ comp = "FoodList"
    /\ phase = "mounted"
    /\ Len(After(<<>>, heap).food) < MaxFood
    /\ LET newFood == world.foodInput
       IN  Call("handleAddFood(" \o newFood \o ")",
                <<Updater("food", "append", newFood)>>, heap,
                [world EXCEPT !.foodInput = ""])

handleRemoveFood ==
    /\ comp = "FoodList"
    /\ \E index \in Rendered(heap[state.food]) :
          Handler(CallName("handleRemoveFood", index),
                  <<Updater("food", "filter", index)>>, heap)

\* ------------------------------------------- car inventory (part_002)
\* What the user may type into the three inputs.
CarYears == {"1999"}
CarMakes == {"Ford"}
CarModels == {"Focus"}

handleAddCarKeepsForm ==
    /\ comp = "CarInventory"
    /\ Len(After(<<>>, heap).cars) < MaxCars
    /\ LET newCar == [year |-> state.carYear, make |-> state.carMake,
                      model |-> state.carModel]
       IN  Handler("handleAddCar", <<Updater("cars", "append", newCar)>>, heap)

handleAddCar ==
    /\ comp = "CarInventory"
    /\ Len(After(<<>>, heap).cars) < MaxCars
    /\ LET newCar == [year |-> state.carYear, make |-> state.carMake,
                      model |-> state.carModel]
       IN  Handler("handleAddCar",
                   <<Updater("cars", "append", newCar),
                     Value("carYear", world.year),
                     Value("carMake", ""),
                     Value("carModel", "")>>, heap)

handleRemoveCar ==
    /\ comp = "CarInventory"
    /\ \E index \in Rendered(heap[state.cars]) :
          LET filtered == Alloc(heap, FilterIndex(heap[state.cars], index))
          IN  Handler(CallName("handleRemoveCar", index),
                      <<Value("cars", filtered.ref)>>, filtered.heap)

handleCarYearChange ==
    /\ comp = "CarInventory"
    /\ \E value \in CarYears :
          Handler("handleCarYearChange", <<Value("carYear", Number(value))>>, heap)

handleCarMakeChange ==
    /\ comp = "CarInventory"
    /\ \E value \in CarMakes :
          Handler("handleCarMakeChange", <<Value("carMake", value)>>, heap)

handleCarModelChange ==
    /\ comp = "CarInventory"
    /\ \E value \in CarModels :
          Handler("handleCarModelChange", <<Value("carModel", value)>>, heap)

\* ---------------------------------------------- car object (part_004)
\* What the user may type into the three inputs.
Years == {"2021", ""}
Makes == {"Ford", "Fiat"}
Models == {"Focus"}

\* setCar(car => ({...car, year: Number(event.target.value)}))
handleYearChange ==
    /\ comp = "CarObject"
    /\ \E value \in Years :
          Handler("handleYearChange",
                  <<Updater("car", "spread",
                            [field |-> "year", value |-> Number(value)])>>, heap)

handleMakeChange ==
    /\ comp = "CarObject"
    /\ \E value \in Makes :
          Handler("handleMakeChange",
                  <<Updater("car", "spread",
                            [field |-> "make", value |-> value])>>, heap)

handleModelChange ==
    /\ comp = "CarObject"
    /\ \E value \in Models :
          Handler("handleModelChange",
                  <<Updater("car", "spread",
                            [field |-> "model", value |-> value])>>, heap)

NextList ==
    \/ Mount
    \/ Render
    \/ handleInputChange
    \/ handleAddTask
    \/ handleDeleteTask
    \/ moveTaskUp
    \/ moveTaskDown
    \/ typeFood
    \/ handleAddFood
    \/ handleRemoveFood
    \/ handleAddCar
    \/ handleRemoveCar
    \/ handleCarYearChange
    \/ handleCarMakeChange
    \/ handleCarModelChange
    \/ handleYearChange
    \/ handleMakeChange
    \/ handleModelChange

InitList == InitOf(ListComponents)

SpecList == InitList /\ [][NextList]_vars

\* ------------------------------------ List (5. Render Lists, example-1)
\* (a, b) => a.calories - b.calories, and b.calories - a.calories.
Compare(order, a, b) ==
    IF order = "ascending" THEN a.calories - b.calories ELSE b.calories - a.calories

\* [...items].sort(compare): equal items keep their order.
RECURSIVE Insert(_, _, _)
Insert(sorted, item, order) ==
    IF sorted = <<>> THEN <<item>>
    ELSE IF Compare(order, item, Head(sorted)) < 0 THEN <<item>> \o sorted
    ELSE <<Head(sorted)>> \o Insert(Tail(sorted), item, order)

RECURSIVE Sort(_, _)
Sort(items, order) ==
    IF items = <<>> THEN <<>>
    ELSE Insert(Sort(SubSeq(items, 1, Len(items) - 1), order), items[Len(items)], order)

\* items.filter(item => item.calories < limit)
LowCal(items, limit) ==
    LET Low(item) == item.calories < limit IN SelectSeq(items, Low)

\* What App may pass as items when it renders again: its array, a sorted copy,
\* the low-calorie items (none, for a limit no item is under), these sorted.
Given(items) ==
    {items, Sort(items, "ascending"), Sort(items, "descending")}
    \cup {LowCal(items, limit) : limit \in {0, 100}}
    \cup {Sort(LowCal(items, limit), "ascending") : limit \in {0, 100}}

\* App renders again and hands its List element the props.
App ==
    /\ comp \in RenderComponents
    /\ \E items \in Given(InitialState(comp, world).items) :
          LET a == Alloc(heap, items)
          IN  Handler("App", <<Value("items", a.ref)>>, a.heap)

NextRender ==
    \/ Mount
    \/ Render
    \/ App

InitRender == InitOf(RenderComponents)

SpecRender == InitRender /\ [][NextRender]_vars

\* ------------------------------- order form (8. onChange event handler)
\* What the user may type or select.
Names == {"Ana"}
Quantities == {"2", ""}
Comments == {"Ring twice"}
Payments == {"", "creditCard", "paypal", "bitcoin"}
Shippings == {"Pickup", "Delivery"}

handleNameChange ==
    /\ comp = "OrderForm"
    /\ \E value \in Names :
          Handler("handleNameChange", <<Value("name", value)>>, heap)

handleQuantityChange ==
    /\ comp = "OrderForm"
    /\ \E value \in Quantities :
          Handler("handleQuantityChange", <<Value("quantity", Number(value))>>, heap)

handleCommentChange ==
    /\ comp = "OrderForm"
    /\ \E value \in Comments :
          Handler("handleCommentChange", <<Value("comment", value)>>, heap)

handlePaymentChange ==
    /\ comp = "OrderForm"
    /\ \E value \in Payments :
          Handler("handlePaymentChange", <<Value("payment", value)>>, heap)

handleShippingChange ==
    /\ comp = "OrderForm"
    /\ \E value \in Shippings :
          Handler("handleShippingChange", <<Value("shipping", value)>>, heap)

NextForm ==
    \/ Mount
    \/ Render
    \/ handleNameChange
    \/ handleQuantityChange
    \/ handleCommentChange
    \/ handlePaymentChange
    \/ handleShippingChange

InitForm == InitOf(FormComponents)

SpecForm == InitForm /\ [][NextForm]_vars

\* ------------------------------------- DigitalClock (16. Digital Clock App)
\* The interval fires a second later: setTime(new Date()).
tick ==
    /\ comp \in {"DigitalClock", "ClockOnTime"}
    /\ \E id \in DOMAIN world.timers : world.timers[id].fn = "setTime"
    /\ world.now < MaxTicks
    /\ LET w == [world EXCEPT !.now = @ + 1]
           date == Alloc(heap, w.now)
       IN  Call("tick", <<Value("time", date.ref)>>, date.heap, w)

\* --------------------------------------- Window (15. useEffect hook/example-2)
RECURSIVE Repeat(_, _)
Repeat(us, n) == IF n = 0 THEN <<>> ELSE us \o Repeat(us, n - 1)

\* setWidth(window.innerWidth); setHeight(window.innerHeight);
handleResize(w) == <<Value("width", w.innerWidth), Value("height", w.innerHeight)>>

\* The user resizes the window: the browser calls every registered listener.
resize ==
    /\ comp = "Window"
    /\ phase # "initial"
    /\ \E width \in Widths, height \in Heights :
          LET w == [world EXCEPT !.innerWidth = width, !.innerHeight = height]
          IN  Call("resize", Repeat(handleResize(w), Cardinality(w.listeners)), heap, w)

\* ----------------------------------- CountColor (15. useEffect hook/example-1)
handleAddCount ==
    /\ comp = "CountColor"
    /\ InRange(After(<<Updater("count", "inc", NoArg)>>, heap).count)
    /\ Handler("handleAddCount", <<Updater("count", "inc", NoArg)>>, heap)

handleSubtractCount ==
    /\ comp = "CountColor"
    /\ InRange(After(<<Updater("count", "dec", NoArg)>>, heap).count)
    /\ Handler("handleSubtractCount", <<Updater("count", "dec", NoArg)>>, heap)

Colors == {"red", "blue", "green"}

\* onClick={() => setColor("red")}, and the same for blue and green
setColor ==
    /\ comp = "CountColor"
    /\ \E color \in Colors : Handler("setColor", <<Value("color", color)>>, heap)

\* ------------------------------------------- Debounce (part_006, onChange.md)
Typed == {"", "a", "ab"}

handleChange ==
    /\ comp = "Debounce"
    /\ \E value \in Typed : Handler("handleChange", <<Value("value", value)>>, heap)

\* A timeout that was not cleared fires, once: search(value).  The browser runs
\* it as a task of its own: a change event, the render it causes and the effects
\* of that render are flushed before the browser takes the next task.
timeout ==
    /\ comp = "Debounce"
    /\ queue = <<>>
    /\ pending = {}
    /\ \E id \in DOMAIN world.timers :
          /\ world.timers[id].fn = "search"
          /\ Call("timeout", <<>>, heap,
                  [world EXCEPT !.searched = world.timers[id].value,
                                !.timers = ClearTimer(@, id)])

\* ------------------------- UserNotes (11. Update Objects in State, sections 3, 4)
\* user.age = 30; setUser(user);
mutateUser ==
    /\ comp = "UserNotes"
    /\ Handler("mutateUser", <<Value("user", state.user)>>,
               [heap EXCEPT ![state.user].age = 30])

\* setUser({ ...user, age: 30 });
replaceUser ==
    /\ comp = "UserNotes"
    /\ LET a == Alloc(heap, [heap[state.user] EXCEPT !.age = 30])
       IN  Handler("replaceUser", <<Value("user", a.ref)>>, a.heap)

NextEffects ==
    \/ Mount
    \/ Render
    \/ FlushEffects
    \/ Unmount
    \/ tick
    \/ resize
    \/ handleAddCount
    \/ handleSubtractCount
    \/ setColor
    \/ handleChange
    \/ timeout
    \/ mutateUser
    \/ replaceUser

InitEffects == InitOf(EffectComponents)

SpecEffects == InitEffects /\ [][NextEffects]_vars

\* ------------------------------------------------------------- formatTime
\* The times of day the clock is started at: every hour, and the minutes and
\* seconds on both sides of the second digit.
Edges == {0, 1, 9, 10, 11, 59}
Times == {h * 3600 + m * 60 + sec : h \in 0..23, m \in Edges, sec \in Edges}

\* new Date() at the first render is any of these times.
InitFormat ==
    /\ comp = "DigitalClock"
    /\ world \in {[w EXCEPT !.now = t] : w \in Browsers(comp), t \in Times}
    /\ Constructed

\* The first render shows formatTime() of the time state.
NextFormat == Mount

SpecFormat == InitFormat /\ [][NextFormat]_vars

\* ================================================================= claims
\* How often x occurs in the sequence q.
Count(q, x) == Cardinality({i \in DOMAIN q : q[i] = x})

Rerendered == last = "Render" /\ before # NoSnapshot

\* C1: updater-form setter calls queued in one batch each receive the value the
\* one before produced, so all take effect: after the re-render the count is the
\* old count plus the increments minus the decrements of the batch (two
\* setCount(c => c + 1) raise it by exactly 2), and the updater version of
\* addTwoTasks leaves the old list followed by "Task A", "Task B".
C1_UpdatersCompose ==
    Rerendered =>
      /\ (comp = "CounterUpdater"
            /\ before.calls = <<"handleIncrement", "handleIncrement">>)
           => state.count = before.state.count + 2
      /\ (comp = "CounterUpdater" /\ Count(before.calls, "handleReset") = 0)
           => state.count = before.state.count
                              + Count(before.calls, "handleIncrement")
                              - Count(before.calls, "handleDecrement")
      /\ (comp = "AddTwoTasks" /\ before.calls = <<"addTwoTasks">>)
           => heap[state.tasks] = before.state.tasks \o <<"Task A", "Task B">>

C1_Witness ==
    /\ Rerendered
    /\ comp = "CounterUpdater"
    /\ before.calls = <<"handleIncrement", "handleIncrement">>
    /\ before.state.count = 1
    /\ state.count = 3

\* C2: two direct-value calls setCount(count + 1) made from the same render's
\* closure both carry the old count + 1, and the count after the batch is the
\* old count + 1, not the old count + 2.
C2_DirectValueIsStale ==
    (Rerendered /\ comp = "Counter" /\ before.calls = <<"increment", "increment">>)
      => /\ before.queue[1].value = before.state.count + 1
         /\ before.queue[2].value = before.state.count + 1
         /\ state.count = before.state.count + 1
         /\ state.count # before.state.count + 2

C2_Witness ==
    /\ Rerendered
    /\ comp = "Counter"
    /\ before.calls = <<"increment", "increment">>
    /\ before.state.count = 0
    /\ state.count = 1

\* C3: the direct-reference addTwoTasks, setTasks([...tasks, "Task A"]) followed
\* by setTasks([...tasks, "Task B"]) before a re-render, ends with the original
\* tasks followed by "Task B" only: the first append is lost.
C3_DirectAppendLost ==
    (Rerendered /\ comp = "AddTwoTasks" /\ before.calls = <<"addTwoTasksDirect">>)
      => /\ heap[state.tasks] = before.state.tasks \o <<"Task B">>
         /\ before.queue[1].value = before.state.tasks \o <<"Task A">>
         /\ Count(heap[state.tasks], "Task A") = Count(before.state.tasks, "Task A")

C3_Witness ==
    /\ Rerendered
    /\ comp = "AddTwoTasks"
    /\ before.calls = <<"addTwoTasksDirect">>
    /\ heap[state.tasks] = <<"Wake up", "Brush Teeth", "Eat Breakfast", "Task B">>
    /\ dom.items = <<"Wake up", "Brush Teeth", "Eat Breakfast", "Task B">>

\* The intervals of the clock that are active.
ClockIntervals == {id \in DOMAIN world.timers : world.timers[id].fn = "setTime"}

\* Nothing is left to do for React: no update is queued, no effect is due.
Settled == phase = "mounted" /\ queue = <<>> /\ pending = {}

\* C4: in DigitalClock the effect with the empty dependency array runs exactly
\* once, at mount, however many re-renders the ticks cause: from the mount effect
\* until unmount exactly one interval is active, and never two.
C4_OneInterval ==
    comp = "DigitalClock" =>
      /\ effectLog["interval"].runs =
           (IF phase = "initial" \/ "interval" \in pending THEN 0 ELSE 1)
      /\ Cardinality(ClockIntervals) =
           (IF phase = "mounted" /\ "interval" \notin pending THEN 1 ELSE 0)
      /\ last = "Render" => "interval" \notin pending

C4_Witness ==
    /\ comp = "DigitalClock"
    /\ Rerendered
    /\ heap[state.time] = 2
    /\ before.state.time = 1
    /\ effectLog["interval"].runs = 1
    /\ Cardinality(ClockIntervals) = 1

\* C5: when DigitalClock unmounts, the cleanup clears the very interval that was
\* created at mount (the intervalId it captured) and no other timer; after the
\* unmount no tick fires, so setTime is never called again.
C5_UnmountClearsInterval ==
    comp = "DigitalClock" =>
      /\ "interval" \in DOMAIN cleanup
           => ClockIntervals = {cleanup["interval"].intervalId}
      /\ phase = "unmounted"
           => /\ ClockIntervals = {}
              /\ last # "tick"
              /\ effectLog["interval"].cleanups = 1
              /\ DOMAIN world.timers = 1..(world.nextTimer - 2)

C5_Witness ==
    /\ comp = "DigitalClock"
    /\ phase = "unmounted"
    /\ world.now = 2
    /\ world.nextTimer = 3
    /\ DOMAIN world.timers = {1}

\* C6: for every effect that returns a cleanup, the body runs only after a
\* render was committed, the cleanup of the previous run runs before the next
\* run and at unmount: the runs never exceed the cleanups by more than one, a
\* cleanup is registered exactly while they do, and after unmount every run has
\* been cleaned up.
C6_CleanupBetweenRuns ==
    /\ \A e \in DOMAIN effectLog :
          /\ effectLog[e].runs - effectLog[e].cleanups \in {0, 1}
          /\ (effectLog[e].runs - effectLog[e].cleanups = 1) <=> (e \in DOMAIN cleanup)
          /\ effectLog[e].runs > 0 => phase # "initial" /\ dom # NoSnapshot
          /\ phase = "unmounted" => effectLog[e].runs = effectLog[e].cleanups
    /\ last = "FlushEffects" => dom = View(comp, Contents(comp, state, heap))

C6_Witness ==
    /\ comp = "Debounce"
    /\ phase = "unmounted"
    /\ effectLog["timeout"].runs = 3
    /\ effectLog["timeout"].cleanups = 3

\* C7: in the window-size component the resize listener is registered exactly
\* once, at mount, and removed at unmount: at most one is registered at any time,
\* none after unmount, and a resize after unmount queues no update.
C7_OneListener ==
    comp = "Window" =>
      /\ Cardinality(world.listeners) =
           (IF phase = "mounted" /\ "listener" \notin pending THEN 1 ELSE 0)
      /\ effectLog["listener"].runs =
           (IF phase = "initial" \/ "listener" \in pending THEN 0 ELSE 1)
      /\ phase = "unmounted" => world.listeners = {} /\ queue = <<>>

C7_Witness ==
    /\ comp = "Window"
    /\ phase = "unmounted"
    /\ last = "resize"
    /\ world.innerWidth # state.width
    /\ world.title = "Size: 800 x 768"

\* C8: in the count/color component the effect on [count, color] is scheduled at
\* mount and by exactly those re-renders in which count or color changed, and
\* whenever nothing is pending document.title is "Count is <count> <color>".
C8_TitleFollowsState ==
    comp = "CountColor" =>
      /\ last = "Mount" => "title" \in pending
      /\ Rerendered =>
           (("title" \in pending) <=> (state.count # before.state.count
                                       \/ state.color # before.state.color))
      /\ Settled => world.title =
                      "Count is " \o ToString(state.count) \o " " \o state.color

C8_Witness ==
    /\ comp = "CountColor"
    /\ Settled
    /\ last = "FlushEffects"
    /\ state.count = -1
    /\ state.color = "red"
    /\ world.title = "Count is -1 red"

\* C9: a batch that leaves every state variable identical to its current value
\* (the same primitive, the same reference) causes no re-render and no effect:
\* what is displayed, the scheduled effects and document.title stay as they
\* were.  So the button of the colour already selected leaves the title alone,
\* and after a mutated object was passed to its setter the display is stale.
C9_SameValueNoRerender ==
    Rerendered =>
      /\ (\A k \in DOMAIN state \ ArrayHooks(comp) : state[k] = before.state[k])
           /\ (\A i \in DOMAIN before.queue : before.queue[i].hook \notin ArrayHooks(comp))
           => dom = before.dom /\ pending = {} /\ world.title = before.title
      /\ (comp = "CountColor" /\ before.calls = <<"setColor">>
            /\ before.queue[1].value = before.state.color)
           => dom = before.dom /\ pending = {} /\ world.title = before.title
      /\ (comp = "UserNotes" /\ Count(before.calls, "replaceUser") = 0)
           => dom = before.dom

C9_Witness ==
    /\ Rerendered
    /\ comp = "UserNotes"
    /\ before.calls = <<"mutateUser">>
    /\ heap[state.user].age = 30
    /\ dom.age = 25

\* C10: the effect without a dependency array that calls setCount(count + 1)
\* never lets the component settle: every run of the effect queues an update,
\* and every re-render schedules the effect again.
C10_EffectLoop ==
    comp = "Loop" =>
      /\ phase = "mounted" => ~Settled
      /\ last = "FlushEffects" => queue = <<Value("count", state.count + 1)>>
      /\ Rerendered => pending = {"setCount"} /\ state.count = before.state.count + 1

C10_Witness ==
    /\ comp = "Loop"
    /\ Rerendered
    /\ state.count = 3
    /\ pending = {"setCount"}

\* What a step does to the arrays and objects: while handlers run, each keeps its
\* contents; a re-render that processed an update of an array or object hook
\* holds a newly created one, and the value held before it has the contents it had.
StateIsReplaced ==
    IF last' = "Render"
      THEN \A k \in ArrayHooks(comp) :
              /\ heap'[before'.refs[k]] = heap[state[k]]
              /\ (\E i \in DOMAIN queue : queue[i].hook = k)
                    => state'[k] # before'.refs[k]
      ELSE \A r \in DOMAIN heap \cap DOMAIN heap' : heap'[r] = heap[r]

\* C11: no handler of the food list, the car inventory, the car object or the
\* to-do list changes an array or object that exists: every update of food, cars,
\* car or tasks installs a newly created array or object, and the value held
\* before it keeps the contents it had.
C11_StateIsReplaced == [][(comp \in ListComponents) => StateIsReplaced]_vars

\* The food list after a re-render: a new array, the old one as it was.
C11_Witness ==
    /\ Rerendered
    /\ comp = "FoodList"
    /\ state.food # before.refs.food
    /\ heap[before.refs.food] = before.state.food
    /\ heap[state.food] # before.state.food
    /\ heap[before.refs.food] = <<"Apple", "Banana", "Orange">>

\* The updates of the queue q that write the field of car, by position.
Writes(q, field) == {i \in DOMAIN q : q[i].arg.field = field}

\* C12: after a re-render of the car object component, every field of car that
\* the queued updates wrote has the value of the last update that wrote it, and
\* every other field has the value it had before.
C12_OnlyOwnField ==
    Rerendered /\ comp = "CarObject" =>
        \A field \in {"year", "make", "model"} :
            LET w == Writes(before.queue, field)
            IN  IF w = {}
                  THEN heap[state.car][field] = before.state.car[field]
                  ELSE \E i \in w :
                          /\ \A j \in w : j <= i
                          /\ heap[state.car][field] = before.queue[i].arg.value

\* Year and make were changed before one re-render: the model is still Corolla.
C12_Witness ==
    /\ Rerendered
    /\ comp = "CarObject"
    /\ before.calls = <<"handleYearChange", "handleMakeChange">>
    /\ before.state.car = [year |-> 2020, make |-> "Toyota", model |-> "Corolla"]
    /\ heap[state.car] = [year |-> 2021, make |-> "Ford", model |-> "Corolla"]

\* C13: in the order form, what each input displays is the state variable it is
\* bound to: the text of name, quantity and comment, the selected payment, and
\* the one checked shipping radio; so that no input changes what it displays
\* without the state changing.
C13_Controlled ==
    comp = "OrderForm" /\ phase = "mounted" =>
        /\ dom.name = state.name
        /\ dom.quantity = state.quantity
        /\ dom.comment = state.comment
        /\ dom.payment = state.payment
        /\ dom.pickup <=> state.shipping = "Pickup"
        /\ dom.delivery <=> state.shipping = "Delivery"
        /\ dom.pickup # dom.delivery

\* A name was typed and Pickup chosen before one re-render: both are displayed.
C13_Witness ==
    /\ Rerendered
    /\ comp = "OrderForm"
    /\ before.calls = <<"handleNameChange", "handleShippingChange">>
    /\ dom.name = "Ana"
    /\ dom.comment = ""
    /\ dom.pickup
    /\ ~before.dom.pickup

\* The positions of the text s that hold something other than a blank.
Inked(s) == {i \in 1..Len(s) : SubSeq(s, i, i) # " "}

\* The text s from its first to its last such position.
Core(s) ==
    IF Inked(s) = {} THEN ""
    ELSE SubSeq(s, CHOOSE i \in Inked(s) : \A j \in Inked(s) : i <= j,
                   CHOOSE i \in Inked(s) : \A j \in Inked(s) : j <= i)

\* What handleAddTask and the re-render after it do in the to-do list.
AddTaskStep ==
    /\ last' = "handleAddTask" /\ Inked(state.newTask) = {}
          => UNCHANGED <<state, queue, dom>> /\ heap'[state.tasks] = heap[state.tasks]
    /\ last' = "handleAddTask" /\ Inked(state.newTask) # {}
          => queue' # <<>> /\ UNCHANGED <<state, dom>>
    /\ last' = "Render" /\ calls = <<"handleAddTask">>
          => /\ heap'[state'.tasks] = heap[state.tasks] \o <<Core(state.newTask)>>
             /\ state'.newTask = ""
             /\ dom'.items = heap'[state'.tasks]
             /\ dom'.input = ""

\* C14: handleAddTask with newTask empty or blank leaves tasks and newTask as they
\* are and queues nothing; otherwise the re-render after it holds the tasks
\* there were, in their order, followed by newTask without the blanks around
\* it, and newTask is the empty string.
C14_AddTaskValidates == [][(comp = "ToDoList") => AddTaskStep]_vars

\* A blank input was refused after " Run " had been added as "Run".
C14_Witness ==
    /\ comp = "ToDoList"
    /\ last = "handleAddTask"
    /\ state.newTask = " "
    /\ queue = <<>>
    /\ Len(heap[state.tasks]) = MaxTasks
    /\ heap[state.tasks][MaxTasks] = "Run"

\* The item x is displayed exactly once among items.
Once(items, x) == Cardinality({i \in DOMAIN items : items[i] = x}) = 1

\* C15: an item that two consecutive renders of a list display (once each) has
\* the same key in both, in the List elements, the food list, the car inventory
\* and the to-do list.
C15_KeysStable ==
    Rerendered /\ comp \in ListComponents \cup RenderComponents
               /\ "keys" \in DOMAIN dom =>
        \A i \in DOMAIN before.dom.items : \A j \in DOMAIN dom.items :
            /\ before.dom.items[i] = dom.items[j]
            /\ Once(before.dom.items, dom.items[j])
            /\ Once(dom.items, dom.items[j])
            => before.dom.keys[i] = dom.keys[j]

\* C16: the keys of the <li> elements a List element displays are the ids of its
\* items, and no two of them are equal.
C16_KeysDistinct ==
    comp \in RenderComponents /\ phase = "mounted" =>
        /\ \A i \in DOMAIN dom.keys : dom.keys[i] = heap[state.items][i].id
        /\ \A i \in DOMAIN dom.keys : \A j \in DOMAIN dom.keys :
              i # j => dom.keys[i] # dom.keys[j]

\* The fruits, then the low-calorie fruits sorted: Date, Cherry, Apple.
C16_Witness ==
    /\ Rerendered
    /\ comp = "Fruits"
    /\ before.dom.keys = <<1, 2, 3, 4>>
    /\ dom.keys = <<4, 3, 1>>

\* C17: a List element displays its category and one <li> per item of its items,
\* in their order, each with the name and the calories of its item; the array
\* it was given is as it was given (none, for no items).
C17_OneItemEach ==
    comp \in RenderComponents /\ phase = "mounted" =>
        LET items == heap[state.items]
        IN  /\ dom.category = state.category
            /\ Len(dom.items) = Len(items)
            /\ \A i \in DOMAIN items :
                  dom.items[i] = items[i].name \o ": " \o ToString(items[i].calories)
                                               \o " calories"
            /\ last = "Mount" => items = InitialState(comp, world).items
            /\ Rerendered => items = before.queue[Len(before.queue)].value

\* No item was displayed, then the low-calorie fruits from the lowest.
C17_Witness ==
    /\ Rerendered
    /\ comp = "Fruits"
    /\ before.dom = [category |-> "Fruits", items |-> <<>>, keys |-> <<>>]
    /\ dom.items = <<"Date: 20 calories", "Cherry: 50 calories", "Apple: 95 calories">>

\* C18: the re-render after handleAddCar holds the cars there were, in their
\* order, followed by one car with the year, make and model the form had in the
\* render of the click; carMake and carModel are empty and carYear is the
\* current year.
C18_AddCar ==
    Rerendered /\ comp = "CarInventory" /\ before.calls = <<"handleAddCar">> =>
        /\ heap[state.cars] =
              before.state.cars \o <<[year |-> before.state.carYear,
                                      make |-> before.state.carMake,
                                      model |-> before.state.carModel]>>
        /\ state.carMake = ""
        /\ state.carModel = ""
        /\ state.carYear = world.year

\* A 1999 Ford Focus was added after another car; the form is reset.
C18_Witness ==
    /\ Rerendered
    /\ comp = "CarInventory"
    /\ before.calls = <<"handleAddCar">>
    /\ Len(heap[state.cars]) = 2
    /\ heap[state.cars][1] # heap[state.cars][2]
    /\ heap[state.cars][2] = [year |-> 1999, make |-> "Ford", model |-> "Focus"]
    /\ dom.year = world.year /\ dom.make = "" /\ dom.model = ""

\* The handler that removes by index, and the list it removes from.
Remover(c) ==
    CASE c = "CarInventory" -> [name |-> "handleRemoveCar", hook |-> "cars"]
      [] c = "FoodList"     -> [name |-> "handleRemoveFood", hook |-> "food"]
      [] c = "ToDoList"     -> [name |-> "handleDeleteTask", hook |-> "tasks"]

\* The list new is the list old without the element at index (counted from 0).
Lacks(new, old, index) ==
    /\ Len(new) = Len(old) - 1
    /\ \A j \in 1..Len(new) : new[j] = IF j <= index THEN old[j] ELSE old[j + 1]

\* C19: the re-render after handleRemoveCar, handleRemoveFood or handleDeleteTask
\* was called with the index of a displayed element holds the list there was
\* without the element at that index: one element fewer, the others as they
\* were and in their order.
C19_RemoveByIndex ==
    Rerendered /\ comp \in {"CarInventory", "FoodList", "ToDoList"} =>
        LET old == before.state[Remover(comp).hook]
            new == heap[state[Remover(comp).hook]]
        IN  \A index \in 0..(Len(old) - 1) :
                before.calls = <<CallName(Remover(comp).name, index)>>
                    => Lacks(new, old, index)

\* "Banana" was removed from between "Apple" and "Orange".
C19_Witness ==
    /\ Rerendered
    /\ comp = "FoodList"
    /\ before.calls = <<"handleRemoveFood(1)">>
    /\ before.state.food = <<"Apple", "Banana", "Orange">>
    /\ heap[state.food] = <<"Apple", "Orange">>

\* The texts the input held at the clicks on Add Food of one batch, in call order.
Texts == UNION {[1..n -> Foods \cup {""}] : n \in 1..MaxListBatch}

\* C20: handleAddFood leaves the input empty, and the re-render after one or
\* several calls of it holds the food there was, in its order, followed by the
\* texts the input held at the calls, in call order.
C20_AddFood ==
    comp = "FoodList" =>
        \A texts \in Texts :
            LET added == [i \in DOMAIN texts |-> "handleAddFood(" \o texts[i] \o ")"]
            IN  /\ Rerendered /\ before.calls = added
                      => /\ heap[state.food] = before.state.food \o texts
                         /\ dom.items = before.dom.items \o texts
                /\ last = added[Len(added)] => world.foodInput = ""

\* "Kiwi" was added and, the input being empty again, "" after it.
C20_Witness ==
    /\ Rerendered
    /\ comp = "FoodList"
    /\ before.calls = <<"handleAddFood(Kiwi)", "handleAddFood()">>
    /\ before.state.food = <<"Banana">>
    /\ heap[state.food] = <<"Banana", "Kiwi", "">>
    /\ world.foodInput = ""

\* The timeouts of the debounce effect that are pending.
SearchTimers == {id \in DOMAIN world.timers : world.timers[id].fn = "search"}

\* C21: in the debounce pattern at most one timeout is pending; once a change of
\* value is rendered and its effects have run, the pending timeout is the one
\* of that value (the one before it was cleared); and a search that was just
\* called was called with the value the component holds, the latest one.
C21_Debounce ==
    comp = "Debounce" =>
        /\ Cardinality(SearchTimers) <= 1
        /\ queue = <<>> /\ pending = {}
              => \A id \in SearchTimers : world.timers[id].value = state.value
        /\ last = "timeout" => world.searched = state.value /\ queue = <<>>

\* "a", then "ab" were typed; two timeouts were cleared and the third searched "ab".
C21_Witness ==
    /\ comp = "Debounce"
    /\ last = "timeout"
    /\ world.searched = "ab"
    /\ world.nextTimer = 4
    /\ effectLog["timeout"].cleanups = 2
    /\ SearchTimers = {}

\* C22: in the DigitalClock whose effect depends on [time], the re-render after a
\* tick holds a new time and so schedules the effect again; each run of the
\* effect creates an interval the browser had not handed out before, after the
\* cleanup of the run before it.
C22_IntervalEveryTick ==
    comp = "ClockOnTime" =>
        /\ Rerendered => /\ state.time # before.refs.time
                         /\ pending = {"interval"}
        /\ last = "FlushEffects" =>
              /\ ClockIntervals = {world.nextTimer - 1}
              /\ cleanup["interval"].intervalId = world.nextTimer - 1
              /\ effectLog["interval"].cleanups = effectLog["interval"].runs - 1

\* Three ticks, each rendered: the effect has run four times.
C22_Witness ==
    /\ comp = "ClockOnTime"
    /\ last = "FlushEffects"
    /\ heap[state.time] = MaxTicks
    /\ effectLog["interval"].runs = MaxTicks + 1
    /\ effectLog["interval"].cleanups = MaxTicks
    /\ Cardinality(ClockIntervals) = 1

\* C23: in the to-do list a move at the boundary is a no-op: moveTaskUp with
\* index 0 and moveTaskDown with the index of the last task set nothing (they
\* are not among the calls whose updates are pending), and after a re-render
\* that follows such a moveTaskDown the tasks are what they were.
C23_BoundaryMoveIsNoOp ==
    comp = "ToDoList" =>
        /\ CallName("moveTaskUp", 0) \notin Range(calls)
        /\ CallName("moveTaskDown", Len(heap[state.tasks]) - 1) \notin Range(calls)
        /\ Rerendered
              /\ before.calls = <<CallName("moveTaskDown", Len(before.state.tasks) - 1)>>
              => heap[state.tasks] = before.state.tasks

\* The list new is the list old without the elements at the indices (from 0) in
\* clicked, the others in their order.
LacksAll(new, old, clicked) ==
    LET kept == {k \in 1..Len(old) : (k - 1) \notin clicked}
    IN  /\ Len(new) = Cardinality(kept)
        /\ \A m \in 1..Len(new) :
              new[m] = old[CHOOSE k \in kept : Cardinality({x \in kept : x <= k}) = m]

\* C24: the re-render after one or two calls of handleRemoveFood, each with the
\* index of an item the render before displayed, holds the food there was
\* without the items at those indices and with every other item: two clicks on
\* distinct items remove those two, two clicks on the same item remove it alone.
C24_RemovesClicked ==
    Rerendered /\ comp = "FoodList" =>
        \A i \in DOMAIN before.dom.items : \A j \in DOMAIN before.dom.items :
            /\ before.calls = <<CallName("handleRemoveFood", i - 1)>>
                  => LacksAll(heap[state.food], before.state.food, {i - 1})
            /\ before.calls = <<CallName("handleRemoveFood", i - 1),
                                CallName("handleRemoveFood", j - 1)>>
                  => LacksAll(heap[state.food], before.state.food, {i - 1, j - 1})

\* C25: formatTime returns 'HH:MM:SS M': HH, MM and SS are the hours (0..23),
\* minutes and seconds of the time state, each as exactly two digits (a leading
\* zero under 10), M is 'PM' exactly when hours >= 12 and 'AM' otherwise, and
\* the hour is the 24-hour value, not reduced to 1..12.
TwoDigits(n) == ToString(n \div 10) \o ToString(n % 10)

C25_FormatTime ==
    comp = "DigitalClock" /\ phase # "initial" =>
        LET time == heap[state.time]
            hours == (time \div 3600) % 24
            shown == dom.clock
        IN  /\ Len(shown) = 11
            /\ SubSeq(shown, 1, 2) = TwoDigits(hours)
            /\ SubSeq(shown, 3, 3) = ":"
            /\ SubSeq(shown, 4, 5) = TwoDigits((time \div 60) % 60)
            /\ SubSeq(shown, 6, 6) = ":"
            /\ SubSeq(shown, 7, 8) = TwoDigits(time % 60)
            /\ SubSeq(shown, 9, 9) = " "
            /\ SubSeq(shown, 10, 11) = (IF hours >= 12 THEN "PM" ELSE "AM")
            /\ hours < 12 <=> SubSeq(shown, 10, 11) = "AM"

C25_Witness ==
    /\ comp = "DigitalClock"
    /\ last = "Mount"
    /\ getHours(heap[state.time]) = 13
    /\ dom.clock = "13:09:10 PM"
====
